---- MODULE Spec2Model ----
(***************************************************************************)
(* Appointment check-in scheduling and notification engine.                *)
(*                                                                         *)
(* Time is counted in half hours since the epoch of the model (UTC).  A    *)
(* calendar day is OneDay half hours, day d covers the instants            *)
(* d*OneDay .. d*OneDay + OneDay - 1.                                      *)
(*                                                                         *)
(* check_in.py and CheckinAPI.py call report.get_rows(),                   *)
(* report.get_tech_details(row, geolocator) and                            *)
(* smartsheet_controller.update_report_rows(report).  alt_smartsheet.py    *)
(* holds the rows as AltSheet.rows, the flush as                           *)
(* SmartsheetController.update_rows, and the normalisation as              *)
(* AllTrackerSheet.get_tech_details, whose appointment time comes from     *)
(* get_appt_datetime.  The model follows the callers: get_rows is the row  *)
(* list, update_report_rows is update_rows, and the geolocator handed to   *)
(* get_tech_details is the one get_appt_datetime localises with.           *)
(***************************************************************************)
EXTENDS Integers, Sequences, FiniteSets, TLC

\* ------------------------------------------------------------------ bounds
NRows == 1          \* rows of the report of the running service
NScan == 2          \* rows of the report handed to a single scan or pass
MaxTime == 1        \* the clock stops advancing here
MaxJobs == 2        \* one-shot jobs ever registered in a run
MaxSms == 1         \* reminders manual requests and passes deliver for a row
MaxNotes == 1       \* discussions created on one row
MaxAdmin == 2       \* admin notifications delivered in a run
MaxPasses == 2      \* POST /24hr requests being served at once
MaxThreads == 2     \* handlers in mid-execution at once
MaxAt == 3          \* latest instant of a change of utcoffset
MaxWall == 10       \* latest wall-clock reading, in half hours after StdOff
MaxZipLen == 10     \* characters in a Zip Code cell

\* ------------------------------------------------------- program constants
OneHour == 2        \* timedelta(hours=1), in half hours
OneDay == 48        \* timedelta(days=1), in half hours

\* Outcomes of SMSBaseController.send_text (sms.py:40-53): a receipt, the
\* provider's "success": false (RuntimeError), or an HTTP error status
\* (requests.HTTPError from raise_for_status, which is no RuntimeError).
TxOutcomes == {"ok", "RuntimeError", "HTTPError"}

\* Outcomes of client.Sheets.update_rows with errors_as_exceptions(True).
WbOutcomes == {"ok", "ApiError"}

\* What is wrong with a row's cells, at most one thing per row.
\*   badDate  'Secured Date' is no ISO date          (ValueError)
\*   noDate   'Secured Date' is empty (None)         (TypeError)
\*   badTime  'Secured Time' is out of range         (ValueError)
\*   noTime   'Secured Time' is empty (None)         (TypeError)
\*   badPhone 'Tech Phone #' does not parse / invalid (ValueError)
\*   badZip   'Zip Code' has an unrecognised format  (ValueError)
\*   noZip    'Zip Code' is empty (None)             (TypeError)
\*   noGeo    geocoding finds no location / times out (ValueError)
Faults == {"none", "badDate", "noDate", "badTime", "noTime",
           "badPhone", "badZip", "noZip", "noGeo"}

VARIABLES
    now,          \* the wall clock, datetime.now(pytz.utc)
    report,       \* the module-global report fetched once (CheckinAPI.py:38)
    remote,       \* the record source's live completion flags
    row_updates,  \* AltSheet.row_updates of the source sheet: row -> cells
    jobs,         \* pending one-shot jobs of the scheduler
    nextId,       \* number of one-shot jobs registered so far
    cron,         \* ids of the periodic jobs in the scheduler
    sms1,         \* row -> number of 1-hour reminders delivered
    sms24,        \* row -> number of 24-hour reminders delivered
    adminSms,     \* number of admin notifications delivered
    admin_num,    \* sms_controller.admin_num is configured
    notes,        \* row -> number of discussions created on it
    passes,       \* executions of send_24_hour_checks in progress, by starter
    threads,      \* the executor's size and the handlers in mid-execution
    last          \* what the last operation did and how it ended

vars == <<now, report, remote, row_updates, jobs, nextId, cron,
          sms1, sms24, adminSms, admin_num, notes, passes, threads,
          last>>

\* ---------------------------------------------------------- normalisation

\* AllTrackerSheet.get_24_hour_checkbox / get_1_hour_checkbox: the cell of
\* the row object held by the report.
get_24_hour_checkbox(rep, r) == rep[r].c24

\* The 1 HR Pre-call cell read from the wrong checkbox column.
get_1_hour_checkbox_24(rep, r) == rep[r].c24

get_1_hour_checkbox(rep, r) == rep[r].c1

\* AllTrackerSheet.get_work_market_num_id
get_work_market_num_id(rep, r) == rep[r].wm

\* AllTrackerSheet.get_appt_date: date.fromisoformat(cell): the day, or the
\* exception raised.
get_appt_date(rep, r) ==
    CASE rep[r].fault = "badDate" -> [exc |-> "ValueError", v |-> 0]
      [] rep[r].fault = "noDate"  -> [exc |-> "TypeError", v |-> 0]
      [] OTHER                    -> [exc |-> "none", v |-> rep[r].date]

\* AllTrackerSheet.get_postal_code: str(int(value)) raises TypeError for an
\* empty cell, which the except ValueError clause does not catch.
get_postal_code(rep, r) ==
    CASE rep[r].fault = "badZip" -> "ValueError"
      [] rep[r].fault = "noZip"  -> "TypeError"
      [] OTHER                   -> "none"

\* AllTrackerSheet.get_tech_contact
get_tech_contact(rep, r) ==
    IF rep[r].fault = "badPhone" THEN "ValueError" ELSE "none"

\* The appointment time left as datetime.combine built it.
get_appt_datetime_naive(rep, r, geolocator) ==
    LET d == get_appt_date(rep, r) IN
    CASE d.exc # "none"           -> [exc |-> d.exc, v |-> 0, tzinfo |-> "None"]
      [] rep[r].fault = "noTime"  ->
                          [exc |-> "TypeError", v |-> 0, tzinfo |-> "None"]
      [] rep[r].fault = "badTime" ->
                          [exc |-> "ValueError", v |-> 0, tzinfo |-> "None"]
      [] OTHER -> [exc |-> "none", v |-> d.v * OneDay + rep[r].time,
                   tzinfo |-> "None"]

\* AllTrackerSheet.get_appt_datetime: date, then int(time) and
\* time(hour, minute); with a geolocator, the postal code and the geocoder
\* give the timezone the time is localised in.  The result is the
\* appointment instant.
\* tzinfo is what the result carries as its timezone: "geocoded" once
\* localize has run with the timezone of the geocoded location, "None" for
\* the bare datetime.combine.
get_appt_datetime(rep, r, geolocator) ==
    LET d == get_appt_date(rep, r) IN
    CASE d.exc # "none"           -> [exc |-> d.exc, v |-> 0, tzinfo |-> "None"]
      [] rep[r].fault = "noTime"  ->
                          [exc |-> "TypeError", v |-> 0, tzinfo |-> "None"]
      [] rep[r].fault = "badTime" ->
                          [exc |-> "ValueError", v |-> 0, tzinfo |-> "None"]
      [] geolocator /\ get_postal_code(rep, r) # "none" ->
            [exc |-> get_postal_code(rep, r), v |-> 0, tzinfo |-> "None"]
      [] geolocator /\ rep[r].fault = "noGeo" ->
            [exc |-> "ValueError", v |-> 0, tzinfo |-> "None"]
      [] OTHER -> [exc |-> "none", v |-> d.v * OneDay + rep[r].time,
                   tzinfo |-> IF geolocator THEN "geocoded" ELSE "None"]

\* An optional argument left out (datetime_, until).
None == -1

\* AllTrackerSheet.get_tech_details(row, datetime_): the fields in the order
\* the dataclass is built; the first getter that raises ends it.
\* geolocator: the sheet was built with one.
get_tech_details(rep, r, geolocator, datetime_) ==
    LET dt == IF datetime_ = None
              THEN get_appt_datetime(rep, r, geolocator)
              ELSE [exc |-> "none", v |-> datetime_, tzinfo |-> "given"]
        failed(exc) == [exc |-> exc, appt_datetime |-> 0, wm |-> 0,
                        tzinfo |-> "None"]
    IN
    CASE get_tech_contact(rep, r) # "none" -> failed(get_tech_contact(rep, r))
      [] get_postal_code(rep, r) # "none" -> failed(get_postal_code(rep, r))
      [] dt.exc # "none" -> failed(dt.exc)
      [] OTHER ->
             [exc |-> "none", appt_datetime |-> dt.v,
              wm |-> get_work_market_num_id(rep, r), tzinfo |-> dt.tzinfo]

\* report.get_tech_details(row, geolocator) as check_in.py and send_1hr call
\* it: the row normalised with the appointment time localised through the
\* geolocator handed in.
normalize(rep, r) == get_tech_details(rep, r, TRUE, None)

\* ------------------------------------------------------------ 1-hour scan

\* sms_controller.send_text(sms_controller.admin_num, error_msg) inside an
\* except clause: nothing is sent without an admin number; a rejected send
\* raises out of the handler that called it.
AdminNotify(admin, outcome) ==
    IF ~admin THEN [exc |-> "none", sent |-> 0]
    ELSE IF outcome = "ok" THEN [exc |-> "none", sent |-> 1]
    ELSE [exc |-> outcome, sent |-> 0]

\* The window test of get_1_hour_checks.
InWindow(nowv, appt, until) == nowv < appt /\ appt < until

\* The fire time of a 1-hour job: tzinfo.normalize(appt - timedelta(hours=1)).
SchedTime(appt) == appt - OneHour

\* The loop of get_1_hour_checks from row i on, acc holding what the rows
\* before i produced.  tx[r] is the transport's answer to a message about
\* row r.
RECURSIVE Scan1(_, _, _, _, _, _, _)
Scan1(rep, n, i, nowv, until, env, acc) ==
    IF i > n THEN acc
    ELSE IF get_1_hour_checkbox(rep, i)
    THEN Scan1(rep, n, i + 1, nowv, until, env, acc)
    ELSE LET td == normalize(rep, i) IN
         IF td.exc = "ValueError"
         THEN LET a == AdminNotify(env.admin, env.tx[i]) IN
              IF a.exc # "none"
              THEN [acc EXCEPT !.exc = a.exc]
              ELSE Scan1(rep, n, i + 1, nowv, until, env,
                         [acc EXCEPT !.admins = @ + a.sent])
         ELSE IF td.exc # "none"
         THEN [acc EXCEPT !.exc = td.exc]
         ELSE IF InWindow(nowv, td.appt_datetime, until)
         THEN Scan1(rep, n, i + 1, nowv, until, env,
                    [acc EXCEPT !.checks = Append(@,
                        [sched_time |-> SchedTime(td.appt_datetime),
                         wm |-> td.wm, row |-> i])])
         ELSE Scan1(rep, n, i + 1, nowv, until, env, acc)

\* get_1_hour_checks: until defaults to now + one day.
\* The list is returned only when no row raised.
get_1_hour_checks(rep, nowv, until, env) ==
    LET u == IF until = None THEN nowv + OneDay ELSE until
        res == Scan1(rep, Len(rep), 1, nowv, u, env,
                     [exc |-> "none", checks |-> <<>>, admins |-> 0])
    IN IF res.exc = "none" THEN res ELSE [res EXCEPT !.checks = <<>>]

\* ------------------------------------------------------- 1-hour reminder

\* The cell buffered under another column than the one asked for.
set_checkbox_other(upd, r, column) ==
    [upd EXCEPT ![r] = Append(@, "24 HR Pre-call")]

\* AltSheet.set_checkbox: append the cell to the row buffered under row.id
\* (the buffer is never emptied).
set_checkbox(upd, r, column) == [upd EXCEPT ![r] = Append(@, column)]

\* SmartsheetController.update_rows: every buffered row is sent to the
\* record source in one request; all buffered cells carry the value True.
Committed(upd, r, column) == \E k \in 1..Len(upd[r]) : upd[r][k] = column

update_rows(rem, upd) ==
    [r \in DOMAIN rem |->
        [c24 |-> rem[r].c24 \/ Committed(upd, r, "24 HR Pre-call"),
         c1  |-> rem[r].c1 \/ Committed(upd, r, "1 HR Pre-call")]]

\* send_1_hour_check with the flush wrapped in a handler that logs the
\* record source's error and goes on to the receipt.
send_1_hour_check_quiet(r, tx, wb, st) ==
    IF tx = "RuntimeError"
    THEN [st EXCEPT !.status = "None"]
    ELSE IF tx # "ok"
    THEN [st EXCEPT !.status = tx]
    ELSE LET upd == set_checkbox(st.row_updates, r, "1 HR Pre-call") IN
         [status |-> "receipt",
          sms1 |-> [st.sms1 EXCEPT ![r] = @ + 1],
          row_updates |-> upd,
          remote |-> IF wb = "ok" THEN update_rows(st.remote, upd)
                     ELSE st.remote]

\* send_1_hour_check for row r, with the transport answering tx and the
\* record source answering wb: what it leaves behind and how it ends.
\*   status "receipt": the dict is returned;  "None": the bare return of
\*   the except clause;  otherwise the exception that leaves the function.
send_1_hour_check(r, tx, wb, st) ==
    IF tx = "RuntimeError"
    THEN [st EXCEPT !.status = "None"]
    ELSE IF tx # "ok"
    THEN [st EXCEPT !.status = tx]
    ELSE LET upd == set_checkbox(st.row_updates, r, "1 HR Pre-call") IN
         IF wb = "ok"
         THEN [status |-> "receipt",
               sms1 |-> [st.sms1 EXCEPT ![r] = @ + 1],
               row_updates |-> upd,
               remote |-> update_rows(st.remote, upd)]
         ELSE [status |-> wb,
               sms1 |-> [st.sms1 EXCEPT ![r] = @ + 1],
               row_updates |-> upd,
               remote |-> st.remote]

\* The state send_1_hour_check works on.
Cur == [status |-> "", sms1 |-> sms1, row_updates |-> row_updates,
        remote |-> remote]

\* scheduler.add_job(send_1_hour_check, trigger='date', run_date=...) for
\* every entry of checks: a new job each, whatever is already pending.
\* done_then is history kept for the properties: the record source's
\* 1hr_done flag of the row at the moment of registration.
RECURSIVE AddJobs(_, _, _, _)
AddJobs(js, id, checks, rem) ==
    IF checks = <<>> THEN js
    ELSE AddJobs(js \cup {[id |-> id + 1, wm |-> Head(checks).wm,
                           row |-> Head(checks).row,
                           run_date |-> Head(checks).sched_time,
                           done_then |-> rem[Head(checks).row].c1]},
                 id + 1, Tail(checks), rem)

\* The transport's answers a scan of rep can meet: one per row the scan
\* writes a message about (a row whose flag is set gets none).
TxChoices(rep, flag) ==
    {tx \in [DOMAIN rep -> TxOutcomes] :
        \A r \in DOMAIN rep : rep[r][flag] => tx[r] = "ok"}

\* What an operation leaves in last: its name, the row it was about, how it
\* ended (a return value or the exception that left it), the transport's
\* answer when it sent a reminder (for a pass: its answers, row by row),
\* the rows a pass delivered reminders to, and the rows it registered jobs
\* for.
Result(op, r, status, tx, sent, regs) ==
    [op |-> op, row |-> r, status |-> status, tx |-> tx, sent |-> sent,
     regs |-> regs]

\* The same for a scan or pass, with the list it built: the checks
\* get_1_hour_checks returned, or the reminders a pass handed to the
\* transport.
ListResult(op, status, tx, sent, regs, ret) ==
    [op |-> op, row |-> 0, status |-> status, tx |-> tx, sent |-> sent,
     regs |-> regs, ret |-> ret]

\* The rows of a list of checks.
CheckRows(checks) == {checks[k].row : k \in 1..Len(checks)}

\* cron_1hr_job fires: schedule_1_hour_checks with until=None registers a
\* job for every entry get_1_hour_checks returns.  APScheduler logs an
\* exception of the job and keeps the cron job.
schedule_1_hour_checks ==
    /\ "cron_1hr_job" \in cron
    /\ \E tx \in TxChoices(report, "c1") :
          LET res == get_1_hour_checks(report, now, None,
                                       [admin |-> admin_num, tx |-> tx])
          IN /\ nextId + Len(res.checks) <= MaxJobs
             /\ jobs' = AddJobs(jobs, nextId, res.checks, remote)
             /\ nextId' = nextId + Len(res.checks)
             /\ adminSms + res.admins <= MaxAdmin
             /\ adminSms' = adminSms + res.admins
             /\ last' = ListResult("schedule_1_hour_checks",
                                   IF res.exc = "none" THEN "None"
                                   ELSE res.exc,
                                   tx, {}, CheckRows(res.checks), res.checks)
    /\ UNCHANGED <<now, report, threads, passes, remote, row_updates, cron,
                   sms1, sms24, admin_num, notes>>

\* A pending one-shot job whose run_date has come is run by the executor:
\* send_1_hour_check with the arguments stored at registration.
FireJob ==
    \E j \in jobs, tx \in TxOutcomes, wb \in WbOutcomes :
          /\ j.run_date = now
          /\ LET res == send_1_hour_check(j.row, tx, wb, Cur) IN
                /\ sms1' = res.sms1
                /\ row_updates' = res.row_updates
                /\ remote' = res.remote
                /\ last' = Result("job", j.row, res.status, tx, {}, {})
          /\ jobs' = jobs \ {j}
          /\ UNCHANGED <<now, report, threads, passes, nextId, cron, sms24,
                         adminSms, admin_num, notes>>

\* A one-shot job whose run_date already lies in the past when the executor
\* gets to it (later than the scheduler's misfire grace time of a second)
\* is dropped without running.
MissJob ==
    \E j \in jobs :
          /\ j.run_date < now
          /\ jobs' = jobs \ {j}
          /\ last' = Result("missed", j.row, "None", "", {}, {})
          /\ UNCHANGED <<now, report, threads, passes, remote, row_updates,
                         nextId, cron, sms1, sms24, adminSms, admin_num,
                         notes>>

\* The row send_1hr / send_24_hour_check / schedule_1_hour_check find for an
\* id: next(row for row in report.get_rows() if ... == id), 0 when there is
\* none (StopIteration).
FindRow(rep, id) ==
    IF \E r \in DOMAIN rep : get_work_market_num_id(rep, r) = id
    THEN CHOOSE r \in DOMAIN rep :
            /\ get_work_market_num_id(rep, r) = id
            /\ \A q \in DOMAIN rep :
                  get_work_market_num_id(rep, q) = id => r <= q
    ELSE 0

\* The flag send_1hr tests before it sends.
Send1hrGuardFlag(rep, r) == get_24_hour_checkbox(rep, r)

\* POST /1hr/{id} (CheckinAPI.send_1hr).
send_1hr ==
    \E id \in 0..Len(report), tx \in TxOutcomes, wb \in WbOutcomes :
       LET r == FindRow(report, id)
           td == normalize(report, r)
           quiet(status) ==
               /\ last' = Result("send_1hr", r, status, "", {}, {})
               /\ UNCHANGED <<sms1, row_updates, remote>>
       IN /\ IF r = 0 THEN quiet("404")
             ELSE IF Send1hrGuardFlag(report, r) THEN quiet("400 checked")
             ELSE IF td.exc = "ValueError" THEN quiet("400 parse")
             ELSE IF td.exc # "none" THEN quiet(td.exc)
             ELSE LET res == send_1_hour_check(r, tx, wb, Cur) IN
                     /\ sms1[r] < MaxSms
                     /\ sms1' = res.sms1
                     /\ row_updates' = res.row_updates
                     /\ remote' = res.remote
                     /\ last' = Result("send_1hr", r, res.status, tx, {}, {})
          /\ UNCHANGED <<now, report, threads, passes, jobs, nextId, cron,
                         sms24, adminSms, admin_num, notes>>

\* The flag schedule_1_hour_check tests before it schedules.
Schedule1hrGuardFlag(rep, r) == get_24_hour_checkbox(rep, r)

\* POST /1hr/{id}/schedule (CheckinAPI.schedule_1hr), which runs
\* check_in.schedule_1_hour_check unless a pending job carries the id.
schedule_1hr ==
    \E id \in 0..Len(report) :
       LET r == FindRow(report, id)
           td == normalize(report, r)
           quiet(status) ==
               /\ last' = Result("schedule_1hr", r, status, "", {}, {})
               /\ UNCHANGED <<jobs, nextId>>
       IN /\ IF \E j \in jobs : j.wm = id THEN quiet("400 scheduled")
             ELSE IF r = 0 THEN quiet("404")
             ELSE IF Schedule1hrGuardFlag(report, r)
             THEN quiet("400 checked")
             ELSE IF td.exc = "ValueError" THEN quiet("400 parse")
             ELSE IF td.exc # "none" THEN quiet(td.exc)
             ELSE IF SchedTime(td.appt_datetime) < now
             THEN quiet("400 past")
             ELSE /\ nextId < MaxJobs
                  /\ jobs' = AddJobs(jobs, nextId,
                        <<[sched_time |-> SchedTime(td.appt_datetime),
                           wm |-> td.wm, row |-> r]>>, remote)
                  /\ nextId' = nextId + 1
                  /\ last' = Result("schedule_1hr", r, "job", "", {}, {r})
          /\ UNCHANGED <<now, report, threads, passes, remote, row_updates,
                         cron, sms1, sms24, adminSms, admin_num, notes>>

\* The jobs delete_job refuses to remove: cron_24hr_job.id and
\* cron_1hr_job.id.
ProtectedJobs_24 == {"cron_24hr_job"}

ProtectedJobs == {"cron_24hr_job", "cron_1hr_job"}

\* The ids a request can name: a periodic job's name, or the number of a
\* one-shot job (pending, gone or never given) under the empty name.
JobIds ==
    {[name |-> c, n |-> 0] : c \in {"cron_24hr_job", "cron_1hr_job"}}
        \cup {[name |-> "", n |-> i] : i \in 1..MaxJobs}

\* The one-shot jobs a removal keyed by the row's number leaves.
remove_job_wm(js, id) == {j \in js : j.wm # id.n}

\* scheduler.remove_job(id): the pending one-shot jobs left.
remove_job(js, id) == {j \in js : ~(id.name = "" /\ j.id = id.n)}

\* What delete_job leaves in last: the id asked for, the row of the
\* one-shot job that carried it (0 when none did), and how it ended.
DeleteResult(id, r, status) ==
    [op |-> "delete_job", row |-> r, status |-> status, tx |-> "",
     sent |-> {}, regs |-> {}, id |-> id]

\* DELETE /jobs/{id} (CheckinAPI.delete_job).
delete_job ==
    \E id \in JobIds :
       LET hit == {j \in jobs : id.name = "" /\ j.id = id.n} IN
       /\ IF id.name \in ProtectedJobs
          THEN /\ last' = DeleteResult(id, 0, "400 protected")
               /\ UNCHANGED <<jobs, cron>>
          ELSE IF id.name \in cron \/ hit # {}
          THEN /\ jobs' = remove_job(jobs, id)
               /\ cron' = cron \ {id.name}
               /\ last' = DeleteResult(id,
                     IF hit # {} THEN (CHOOSE j \in hit : TRUE).row ELSE 0,
                     "None")
          ELSE /\ last' = DeleteResult(id, 0, "404")
               /\ UNCHANGED <<jobs, cron>>
       /\ UNCHANGED <<now, report, threads, passes, remote, row_updates,
                      nextId, sms1, sms24, adminSms, admin_num, notes>>

\* Time passes.
Tick ==
    /\ now < MaxTime
    /\ now' = now + 1
    /\ UNCHANGED <<report, threads, passes, remote, row_updates, jobs, nextId,
                   cron, sms1, sms24, adminSms, admin_num, notes, last>>

\* ---------------------------------------------------------- 24-hour pass

\* date.today(): the process-local day of the clock.
Today(nowv) == nowv \div OneDay

\* build_form: the form URL with the row's fields as the query string.
build_form(td) == [form |-> "N8N", wm |-> td.wm]

\* The 24-hour reminder handed to the transport: the technician of row r,
\* the text with the appointment time and the URL, and whether the
\* transport accepted it.
Msg24(r, td, tx) == [to |-> r, link |-> build_form(td), ok |-> tx = "ok"]

\* logger.debug(resp) after the try/except of the send: resp is a local that
\* only a successful send of this call has assigned.
DebugResp(bound) == IF bound THEN "none" ELSE "UnboundLocalError"

\* The loop of send_24_hour_checks from row i on.
RECURSIVE Pass24(_, _, _, _, _, _)
Pass24(rep, n, i, tomorrow, env, acc) ==
    IF i > n THEN acc
    ELSE IF get_24_hour_checkbox(rep, i)
    THEN Pass24(rep, n, i + 1, tomorrow, env, acc)
    ELSE LET d == get_appt_date(rep, i) IN
         IF d.exc \in {"ValueError", "TypeError"}
         THEN LET a == AdminNotify(env.admin, env.tx[i]) IN
              IF a.exc # "none"
              THEN [acc EXCEPT !.exc = a.exc]
              ELSE Pass24(rep, n, i + 1, tomorrow, env,
                          [acc EXCEPT !.admins = @ + a.sent])
         ELSE IF tomorrow # d.v
         THEN Pass24(rep, n, i + 1, tomorrow, env, acc)
         ELSE LET td == normalize(rep, i) IN
              IF td.exc = "ValueError"
              THEN LET a == AdminNotify(env.admin, env.tx[i]) IN
                   IF a.exc # "none"
                   THEN [acc EXCEPT !.exc = a.exc]
                   ELSE Pass24(rep, n, i + 1, tomorrow, env,
                               [acc EXCEPT !.admins = @ + a.sent])
              ELSE IF td.exc # "none"
              THEN [acc EXCEPT !.exc = td.exc]
              ELSE LET sent == [acc EXCEPT !.msgs =
                                   Append(@, Msg24(i, td, env.tx[i]))]
                   IN
                   IF env.tx[i] = "ok"
                   THEN Pass24(rep, n, i + 1, tomorrow, env,
                               [sent EXCEPT !.resp = TRUE])
                   ELSE IF env.tx[i] = "RuntimeError"
                   THEN IF DebugResp(acc.resp) # "none"
                        THEN [sent EXCEPT !.exc = DebugResp(acc.resp)]
                        ELSE Pass24(rep, n, i + 1, tomorrow, env, sent)
                   ELSE [sent EXCEPT !.exc = env.tx[i]]

\* send_24_hour_checks: the reminders handed to the transport, the admin
\* notifications delivered and the exception that ended the pass, if any.
send_24_hour_checks(rep, nowv, env) ==
    Pass24(rep, Len(rep), 1, Today(nowv) + 1, env,
           [exc |-> "none", msgs |-> <<>>, admins |-> 0, resp |-> FALSE])

\* The rows whose technician got a reminder, and how many row r's got.
Receivers(msgs) == {msgs[k].to : k \in {i \in 1..Len(msgs) : msgs[i].ok}}

Count24(msgs, r) ==
    Cardinality({k \in 1..Len(msgs) : msgs[k].to = r /\ msgs[k].ok})

\* cron_24hr_job fires, or POST /24hr (send_all_24hr): both run
\* send_24_hour_checks on the module-global report.
Pass24Effect ==
    \E tx \in TxChoices(report, "c24") :
       LET res == send_24_hour_checks(report, now,
                                      [admin |-> admin_num, tx |-> tx])
       IN /\ \A r \in DOMAIN report : sms24[r] + Count24(res.msgs, r) <= MaxSms
          /\ sms24' = [r \in DOMAIN report |->
                        sms24[r] + Count24(res.msgs, r)]
          /\ adminSms + res.admins <= MaxAdmin
          /\ adminSms' = adminSms + res.admins
          /\ last' = ListResult("send_24_hour_checks",
                                IF res.exc = "none" THEN "None" ELSE res.exc,
                                tx, Receivers(res.msgs), {}, res.msgs)
          /\ UNCHANGED <<now, report, threads, remote, row_updates, jobs,
                         nextId, cron, sms1, admin_num, notes>>

\* One whole execution of the pass, by the cron trigger or by POST /24hr.
Run24 == Pass24Effect /\ UNCHANGED passes

\* The cron trigger starts an execution of the pass on the scheduler's
\* executor. A job added without max_instances runs one instance at a time:
\* the trigger's run is skipped while the previous one is executing.
StartCron24 ==
    /\ passes.cron = 0
    /\ passes' = [passes EXCEPT !.cron = 1]
    /\ UNCHANGED <<now, report, threads, remote, row_updates, jobs, nextId,
                   cron, sms1, sms24, adminSms, admin_num, notes, last>>

\* POST /24hr starts an execution of the pass on a thread of the request
\* pool: the handler is a plain def and takes no lock.
send_all_24hr ==
    /\ passes.manual < MaxPasses
    /\ passes' = [passes EXCEPT !.manual = @ + 1]
    /\ UNCHANGED <<now, report, threads, remote, row_updates, jobs, nextId,
                   cron, sms1, sms24, adminSms, admin_num, notes, last>>

\* An execution in progress runs to its end.
Finish24 ==
    \E who \in {"cron", "manual"} :
       /\ passes[who] > 0
       /\ passes' = [passes EXCEPT ![who] = @ - 1]
       /\ Pass24Effect

\* check_in.send_24_hour_check for the id, on the module-global report:
\* how it ends ("receipt" is the dict it returns) and whether a reminder
\* was delivered.  A missing row and a set checkbox are both ValueErrors,
\* told apart by their message.
send_24_hour_check(rep, id, tx) ==
    LET r == FindRow(rep, id)
        td == normalize(rep, r)
    IN IF r = 0 THEN [exc |-> "ValueError", msg |-> "not found", sent |-> 0]
       ELSE IF get_24_hour_checkbox(rep, r)
       THEN [exc |-> "ValueError", msg |-> "checked", sent |-> 0]
       ELSE IF td.exc # "none"
       THEN [exc |-> td.exc, msg |-> "parse", sent |-> 0]
       ELSE IF tx # "ok" THEN [exc |-> tx, msg |-> "sms", sent |-> 0]
       ELSE [exc |-> "none", msg |-> "receipt", sent |-> 1]

\* POST /24hr/{id} (CheckinAPI.send_24hr): a ValueError becomes a 400 with
\* the error's message, a RuntimeError a 500; anything else leaves the
\* handler as it is.
send_24hr ==
    \E id \in 0..Len(report), tx \in TxOutcomes :
       LET r == FindRow(report, id)
           res == send_24_hour_check(report, id, tx)
           status == IF res.exc = "none" THEN "receipt"
                     ELSE IF res.exc = "ValueError" THEN "400 " \o res.msg
                     ELSE IF res.exc = "RuntimeError" THEN "500"
                     ELSE res.exc
       IN /\ r # 0 => sms24[r] + res.sent <= MaxSms
          /\ sms24' = IF r = 0 THEN sms24
                      ELSE [sms24 EXCEPT ![r] = @ + res.sent]
          /\ last' = Result("send_24hr", r, status,
                            IF res.msg \in {"sms", "receipt"} THEN tx ELSE "",
                            {}, {})
          /\ UNCHANGED <<now, report, threads, passes, remote, row_updates,
                         jobs, nextId, cron, sms1, adminSms, admin_num,
                         notes>>

\* ------------------------------------------------------- form submission

\* The module-global report used instead of a fresh one.
get_report_cached(rep, rem) == rep

\* smartsheet_controller.get_report(...) in submit_form: the rows with the
\* record source's current flags, and an empty update buffer.
get_report(rep, rem) ==
    [r \in DOMAIN rep |-> [rep[r] EXCEPT !.c24 = rem[r].c24,
                                         !.c1 = rem[r].c1]]

\* report.get_tech_details(row) of a report built without a geolocator:
\* get_appt_datetime does not geocode.
get_tech_details_naive(rep, r) == get_tech_details(rep, r, FALSE, None)

\* The fields of the form submit_form compares with the row, besides the
\* time.
FormFields == {"tech_name", "site_id", "date", "location"}

\* A submitted form, as far as submit_form can tell: the fields that differ
\* from the row's, whether form.time (a free string) is the row's time,
\* another time, or no %H%M time at all, and whether form.comment is set.
Forms ==
    [differs : {{}, {"tech_name"}, {"location"}, FormFields},
     time : {"same", "other", "malformed"}, comment : BOOLEAN]

\* datetime.strptime(form.time, TIME_FORM_FORMAT)
strptime(t) == IF t = "malformed" THEN "ValueError" ELSE "none"

\* The comparison that forgets the address.
Discrepancies_noaddr(form) ==
    (form.differs \ {"location"})
        \cup (IF form.time = "other" THEN {"time"} ELSE {})

\* The "needs to be changed" comments submit_form collects, one per
\* differing field.
Discrepancies(form) ==
    form.differs \cup (IF form.time = "other" THEN {"time"} ELSE {})

\* What submit_form leaves in last: the result and the compared fields of
\* the form it was given.
FormResult(r, status, form) ==
    [op |-> "submit_form", row |-> r, status |-> status, tx |-> "",
     sent |-> {}, regs |-> {},
     form |-> [differs |-> form.differs, time |-> form.time]]

\* submit_form past its rejections: with no discrepancy the checkbox is set
\* and flushed; with a discrepancy or a comment a discussion is created on
\* the row.
Written(r, form, comments) ==
    /\ (comments # {} \/ form.comment) => notes[r] < MaxNotes
    /\ remote' = IF comments = {}
                 THEN [remote EXCEPT ![r].c24 = TRUE]
                 ELSE remote
    /\ notes' = IF comments # {} \/ form.comment
                THEN [notes EXCEPT ![r] = @ + 1]
                ELSE notes
    /\ last' = FormResult(r, "complete", form)

\* POST /forms/submit (CheckinAPI.submit_form).  The checkbox is buffered in
\* the report fetched for this request and flushed from there.
submit_form ==
    \E id \in 0..Len(report), form \in Forms :
       LET fresh == get_report(report, remote)
           r == FindRow(fresh, id)
           td == get_tech_details_naive(fresh, r)
           comments == Discrepancies(form)
           quiet(status) ==
               /\ last' = FormResult(r, status, form)
               /\ UNCHANGED <<remote, notes>>
       IN /\ IF r = 0 THEN quiet("404")
             ELSE IF get_24_hour_checkbox(fresh, r)
             THEN quiet("already complete")
             ELSE IF td.exc # "none" THEN quiet(td.exc)
             ELSE IF strptime(form.time) # "none"
             THEN quiet(strptime(form.time))
             ELSE \E wb \in IF comments = {} THEN WbOutcomes ELSE {"ok"} :
                     IF wb # "ok" THEN quiet(wb)
                     ELSE Written(r, form, comments)
          /\ UNCHANGED <<now, report, threads, passes, row_updates, jobs,
                         nextId, cron, sms1, sms24, adminSms, admin_num>>

\* ------------------------------------------------------------ the system

\* The cell values a row of the report can hold when the service starts.
RowValues(flags, dates, times, faults) ==
    [c24 : flags.c24, c1 : flags.c1, date : dates, time : times,
     fault : faults]

\* The reports of n rows, row r carrying work market number r.
Reports(n, flags, dates, times, faults) ==
    {[r \in 1..n |-> [c24 |-> f[r].c24, c1 |-> f[r].c1, date |-> f[r].date,
                      time |-> f[r].time, fault |-> f[r].fault, wm |-> r]] :
        f \in [1..n -> RowValues(flags, dates, times, faults)]}

AnyFlags == [c24 |-> BOOLEAN, c1 |-> BOOLEAN]

\* The service once the module has been imported (CheckinAPI.py:25-79) at
\* instant t: the report has been fetched, the record source holds the
\* flags the report shows, schedule_1_hour_checks has registered the jobs
\* up to the next cron fire time nf plus one minute (on the half-hour grid:
\* appointments <= nf), and the two cron jobs are in the scheduler.  When
\* the start-up scan raises, the import fails and no service runs.
InitService(rep, t, admin, nf, tx, pool) ==
    LET res == get_1_hour_checks(rep, t, nf + 1,
                                 [admin |-> admin, tx |-> tx])
    IN /\ res.exc = "none"
       /\ now = t
       /\ report = rep
       /\ remote = [r \in DOMAIN rep |-> [c24 |-> rep[r].c24, c1 |-> rep[r].c1]]
       /\ row_updates = [r \in DOMAIN rep |-> <<>>]
       /\ jobs = AddJobs({}, 0, res.checks,
                       [r \in DOMAIN rep |-> [c24 |-> rep[r].c24, c1 |-> rep[r].c1]])
       /\ nextId = Len(res.checks)
       /\ cron = {"cron_24hr_job", "cron_1hr_job"}
       /\ sms1 = [r \in DOMAIN rep |-> 0]
       /\ sms24 = [r \in DOMAIN rep |-> 0]
       /\ adminSms = res.admins
       /\ admin_num = admin
       /\ notes = [r \in DOMAIN rep |-> 0]
       /\ passes = [cron |-> 0, manual |-> 0]
       /\ threads = [pool |-> pool, active |-> {}]
       /\ last = Result("startup", 0, "None", "", {}, CheckRows(res.checks))

\* The same with the textbelt transport, whose executor has one thread.
InitWith(rep, t, admin, nf, tx) == InitService(rep, t, admin, nf, tx, 1)

\* Appointments today, half an hour and an hour and a half after start-up;
\* the next cron fire is half an hour or a day away.
Init ==
    \E rep \in Reports(NRows, AnyFlags, {0}, {1, 3}, {"none"}), nf \in {1, OneDay} :
        InitWith(rep, 0, FALSE, nf, [r \in DOMAIN rep |-> "ok"])

\* The whole service.
Next ==
    \/ schedule_1_hour_checks
    \/ FireJob
    \/ MissJob
    \/ send_1hr
    \/ schedule_1hr
    \/ delete_job
    \/ Run24
    \/ send_24hr
    \/ submit_form
    \/ Tick

Spec == Init /\ [][Next]_vars

\* The 1-hour reminders alone: scans, job runs and manual sends.
Next1h ==
    \/ schedule_1_hour_checks
    \/ FireJob
    \/ MissJob
    \/ send_1hr
    \/ Tick

\* Appointments half an hour (the reminder is already overdue) and an hour
\* and a half after start-up, none confirmed yet, the next cron fire a day
\* away.
Init1h ==
    \E rep \in Reports(NRows, [c24 |-> {FALSE}, c1 |-> BOOLEAN], {0},
                       {1, 3}, {"none"}) :
        InitWith(rep, 0, FALSE, OneDay, [r \in DOMAIN rep |-> "ok"])

Spec1h == Init1h /\ [][Next1h]_vars

\* One scan per behaviour, on any report: get_1_hour_checks as schedule_1_hour_checks
\* calls it at start-up (until given) and from the cron job (until=None).
\* The clock stands an hour after midnight; appointments lie at it and half
\* an hour after it, today and tomorrow.
Due ==
    /\ last.op = ""
    /\ \E until \in {None, now + OneHour},
          tx \in {t \in TxChoices(report, "c1") :
                    \A r \in DOMAIN report :
                       report[r].fault = "none" => t[r] = "ok"} :
          LET res == get_1_hour_checks(report, now, until,
                                       [admin |-> admin_num, tx |-> tx])
          IN /\ last' = [op |-> "get_1_hour_checks", row |-> 0,
                         status |-> IF res.exc = "none" THEN "None"
                                    ELSE res.exc,
                         tx |-> tx, sent |-> {}, regs |-> CheckRows(res.checks),
                         ret |-> res.checks,
                         until |-> IF until = None THEN now + OneDay
                                   ELSE until]
             /\ UNCHANGED <<now, report, threads, passes, remote, row_updates,
                            jobs, nextId, cron, sms1, sms24, adminSms,
                            admin_num, notes>>

\* The inputs of one scan: the module is being imported, nothing runs yet.
InitDue ==
    \E rep \in Reports(NScan, [c24 |-> {FALSE}, c1 |-> BOOLEAN], {0, 1},
                       {2, 3}, {"none", "badPhone", "noTime"}) :
       /\ now = OneHour
       /\ report = rep
       /\ remote = [r \in DOMAIN rep |-> [c24 |-> rep[r].c24,
                                          c1 |-> rep[r].c1]]
       /\ row_updates = [r \in DOMAIN rep |-> <<>>]
       /\ jobs = {}
       /\ nextId = 0
       /\ cron = {}
       /\ sms1 = [r \in DOMAIN rep |-> 0]
       /\ sms24 = [r \in DOMAIN rep |-> 0]
       /\ adminSms = 0
       /\ admin_num \in BOOLEAN
       /\ notes = [r \in DOMAIN rep |-> 0]
       /\ passes = [cron |-> 0, manual |-> 0]
       /\ threads = [pool |-> 1, active |-> {}]
       /\ last = Result("", 0, "", "", {}, {})

SpecDue == InitDue /\ [][Due]_vars

\* The 24-hour pass on a running service whose 1-hour reminders are all
\* done (the start-up scan found nothing to schedule): appointments
\* tomorrow and the day after, rows with unreadable cells among them.
InitPass ==
    \E rep \in Reports(NScan, [c24 |-> BOOLEAN, c1 |-> {TRUE}], {1, 2}, {3},
                       {"none", "badDate", "noDate", "badPhone", "noTime"}),
       admin \in BOOLEAN :
       InitWith(rep, 0, admin, OneDay, [r \in DOMAIN rep |-> "ok"])

\* One pass per behaviour, the first thing after start-up.
Pass == last.op = "startup" /\ Run24

SpecPass == InitPass /\ [][Pass]_vars

\* ------------------------------------------------------------- properties

\* The statuses that are exceptions leaving an operation.
Raises(status) ==
    status \in {"HTTPError", "ApiError", "TypeError", "ValueError",
                "RuntimeError", "UnboundLocalError"}

\* A step of the operation named op: every operation but Tick records its
\* name in last, and Tick alone moves the clock.
Step(op) == now' = now /\ last'.op = op

\* C1: the 1-hour reminder SMS is sent at most once for any work market
\* number, across scans, schedule requests, manual sends and job runs.
C1_AtMostOnce == \A r \in DOMAIN report : sms1[r] <= 1

\* The one-shot jobs still to run: the overdue ones are about to be dropped.
Pending == {j \in jobs : j.run_date >= now}

\* C2: the pending one-shot jobs hold at most one job per work market
\* number, also after schedule_1_hour_checks has run again.
C2_OneJobPerAppointment ==
    \A j1 \in Pending, j2 \in Pending : j1.wm = j2.wm => j1 = j2

\* C3: a one-shot job that runs after the record source's 1hr_done flag of
\* its row has become true sends no SMS and ends without an exception.
C3_SkipWhenDone ==
    [][\A j \in jobs :
          (Step("job") /\ j \notin jobs' /\ ~j.done_then /\ remote[j.row].c1)
              => (sms1' = sms1 /\ ~Raises(last'.status))]_vars

\* C4: a 1-hour scan registers no job, and a 24-hour pass sends no
\* reminder, for a row whose flag of that kind is true in the record source
\* when the scan or pass starts.
C4_FreshFlags ==
    [][/\ Step("schedule_1_hour_checks")
             => \A r \in DOMAIN report : remote[r].c1 => r \notin last'.regs
       /\ Step("send_24_hour_checks")
             => \A r \in DOMAIN report : remote[r].c24 => r \notin last'.sent
      ]_vars

\* C5: when the SMS of send_1_hour_check has been accepted, the row's
\* 1 HR Pre-call cell is buffered, and the receipt is returned only with the
\* flag committed to the record source (otherwise the commit's error leaves
\* the operation).
C5_ReceiptAfterCommit ==
    (last.op \in {"job", "send_1hr"} /\ last.tx = "ok")
        => /\ Committed(row_updates, last.row, "1 HR Pre-call")
           /\ last.status \in {"receipt", "ApiError"}
           /\ last.status = "receipt" => remote[last.row].c1

\* A job has returned its receipt for a row the report shows as not done.
C5_Witness ==
    /\ last.op = "job"
    /\ last.status = "receipt"
    /\ ~report[last.row].c1
    /\ sms1[last.row] = 1

\* C6: when the transport rejects the SMS of send_1_hour_check, the
\* operation ends without an exception, the flag and the update buffer stay
\* as they were and no job is registered.
C6_RejectionContained ==
    [][((Step("job") \/ Step("send_1hr"))
            /\ last'.tx \in {"RuntimeError", "HTTPError"})
          => /\ ~Raises(last'.status)
             /\ remote' = remote
             /\ row_updates' = row_updates
             /\ jobs' \subseteq jobs]_vars

\* How many entries of a list of checks are for row r.
Entries(checks, r) ==
    Cardinality({k \in 1..Len(checks) : checks[k].row = r})

\* C7: get_1_hour_checks never returns an entry for a row whose 1hr_done
\* flag is true, whatever the row's appointment time.
C7_DoneNeverDue ==
    last.op = "get_1_hour_checks" =>
        \A k \in 1..Len(last.ret) : ~report[last.ret[k].row].c1

\* A scan that returned an entry although another row, whose appointment
\* lies in the window and whose cells all read, has its flag set.
C7_Witness ==
    /\ last.op = "get_1_hour_checks"
    /\ last.ret # <<>>
    /\ \E r \in DOMAIN report :
          /\ report[r].c1
          /\ report[r].fault = "none"
          /\ now < report[r].date * OneDay + report[r].time
          /\ report[r].date * OneDay + report[r].time < last.until

\* C8: every row with 1hr_done false, normalization succeeding and the
\* appointment strictly between now and until has exactly one entry in what
\* get_1_hour_checks returns; a row whose appointment is at or before now,
\* or at or after until, has none.
C8_ExactlyTheWindow ==
    last.op = "get_1_hour_checks" =>
        \A r \in DOMAIN report :
           LET td == normalize(report, r) IN
           (~report[r].c1 /\ td.exc = "none") =>
               IF now < td.appt_datetime /\ td.appt_datetime < last.until
               THEN Entries(last.ret, r) = 1
               ELSE Entries(last.ret, r) = 0

\* A row the 24-hour pass owes a reminder: 24hr_done false, the date
\* tomorrow, every field valid.
Owed24(r) ==
    /\ ~report[r].c24
    /\ get_appt_date(report, r).exc = "none"
    /\ get_appt_date(report, r).v = Today(now) + 1
    /\ normalize(report, r).exc = "none"

\* A row the pass cannot read: the date does not parse, or normalization
\* fails.
Unreadable(r) ==
    \/ get_appt_date(report, r).exc # "none"
    \/ normalize(report, r).exc # "none"

\* C9: one run of send_24_hour_checks hands the transport exactly one
\* message for every row with 24hr_done false, the date tomorrow and valid
\* fields, that message carries the confirmation URL, and the run neither
\* changes nor buffers a change of any row's 24hr_done flag.
C9_OneReminder ==
    [][Step("send_24_hour_checks") =>
         /\ \A r \in DOMAIN report :
               Owed24(r) =>
                  /\ Cardinality({k \in 1..Len(last'.ret) :
                                     last'.ret[k].to = r}) = 1
                  /\ \A k \in 1..Len(last'.ret) :
                        last'.ret[k].to = r =>
                           last'.ret[k].link = build_form(normalize(report, r))
         /\ remote' = remote
         /\ row_updates' = row_updates]_vars

\* C10: a row whose date does not parse or whose normalization fails never
\* aborts send_24_hour_checks: with the transport accepting every message,
\* every later row with 24hr_done false and the date tomorrow receives its
\* reminder.
C10_BadRowSkipped ==
    [][(Step("send_24_hour_checks")
          /\ \A r \in DOMAIN report : last'.tx[r] = "ok") =>
         \A q \in DOMAIN report, r \in DOMAIN report :
            (q < r /\ Unreadable(q) /\ Owed24(r)) =>
               Count24(last'.ret, r) = 1]_vars

\* C11: in send_24_hour_checks a transport rejection of one row's reminder
\* (an HTTP error status or the provider's "success": false), the first
\* send of the pass included, stays with that row: on a report whose rows
\* all read, the pass does not raise and hands the transport one reminder
\* for every row with 24hr_done false and the date tomorrow.
C11_RejectionPerRow ==
    [][(Step("send_24_hour_checks")
          /\ \A q \in DOMAIN report : ~Unreadable(q)) =>
         /\ ~Raises(last'.status)
         /\ \A r \in DOMAIN report :
               Owed24(r) =>
                  Cardinality({k \in 1..Len(last'.ret) :
                                  last'.ret[k].to = r}) = 1]_vars

\* Form submissions alone, on a running service whose 1-hour reminders are
\* all done: appointments tomorrow, rows with an empty time cell among them.
InitForm ==
    \E rep \in Reports(NRows, [c24 |-> BOOLEAN, c1 |-> {TRUE}], {1}, {3},
                       {"none", "noTime"}) :
       InitWith(rep, 0, FALSE, OneDay, [r \in DOMAIN rep |-> "ok"])

SpecForm == InitForm /\ [][submit_form]_vars

\* C12: once a row's 24hr_done flag is true in the record source,
\* submit_form for its work market number answers "already complete" and
\* writes nothing (no flag, no buffered cell, no discussion), whatever the
\* form holds.
C12_ResubmitNoOp ==
    [][\A r \in DOMAIN report :
          (Step("submit_form") /\ last'.row = r /\ remote[r].c24) =>
             /\ last'.status = "already complete"
             /\ remote' = remote
             /\ row_updates' = row_updates
             /\ notes' = notes]_vars

\* A second submission answered "already complete" for a row the cached
\* report still shows unconfirmed: the flag was set by an earlier
\* submission of this run.
C12_Witness ==
    /\ last.op = "submit_form"
    /\ last.status = "already complete"
    /\ last.row \in DOMAIN report
    /\ ~report[last.row].c24
    /\ remote[last.row].c24

\* C13: submit_form on a row whose 24hr_done flag is false, whose cells
\* read and whose write-back the record source accepts, sets the flag
\* exactly when every compared field (tech name, site id, time, date,
\* address) equals the row's; when a field differs it creates a correction
\* note on the row and leaves the flag false.
C13_FlagIffNoDiscrepancy ==
    [][\A r \in DOMAIN report :
          (/\ Step("submit_form")
           /\ last'.row = r
           /\ ~remote[r].c24
           /\ get_tech_details_naive(report, r).exc = "none"
           /\ last'.status # "ApiError") =>
             LET equal == /\ last'.form.differs = {}
                          /\ last'.form.time = "same"
             IN /\ remote'[r].c24 <=> equal
                /\ ~equal => /\ notes'[r] = notes[r] + 1
                             /\ ~remote'[r].c24]_vars

\* C14: an on-demand 1-hour schedule request that finds its row, with no
\* job pending for the id, is rejected as already-done and registers no job
\* when the row's 1hr_done flag is true, and is not rejected as
\* already-done when that flag is false, whatever the 24hr_done flag.
C14_AlreadyDoneBy1hrFlag ==
    [][\A r \in DOMAIN report :
          (/\ Step("schedule_1hr")
           /\ last'.row = r
           /\ last'.status # "400 scheduled") =>
             /\ get_1_hour_checkbox(report, r) =>
                   (last'.status = "400 checked" /\ jobs' = jobs)
             /\ ~get_1_hour_checkbox(report, r) =>
                   last'.status # "400 checked"]_vars

\* Confirmations and on-demand 24-hour sends on a running service whose
\* 1-hour reminders are all done.
Next24d ==
    \/ submit_form
    \/ send_24hr

Spec24d == InitForm /\ [][Next24d]_vars

\* C15: the on-demand 24-hour send delivers an SMS only when a row matches
\* the id and that row's 24hr_done flag is false; it is rejected as
\* not-found when no row matches and as already-done when the flag is true,
\* and then no SMS is sent and no flag changes or is buffered.
C15_OnDemand24Guarded ==
    [][Step("send_24hr") =>
         LET r == last'.row
             quiet == /\ sms24' = sms24
                      /\ remote' = remote
                      /\ row_updates' = row_updates
         IN /\ sms24' # sms24 => (r # 0 /\ ~remote[r].c24)
            /\ r = 0 => (last'.status = "400 not found" /\ quiet)
            /\ (r # 0 /\ remote[r].c24) =>
                  (last'.status = "400 checked" /\ quiet)]_vars

\* C16: an on-demand 1-hour schedule request for a row whose 1-hour
\* reminder is not done and has no job pending, and whose fire time
\* (appointment minus one hour) is earlier than now, is rejected as
\* past-due and leaves the pending jobs as they are.
C16_PastDueRejected ==
    [][\A r \in DOMAIN report :
          (/\ Step("schedule_1hr")
           /\ last'.row = r
           /\ last'.status # "400 scheduled"
           /\ ~get_1_hour_checkbox(report, r)
           /\ normalize(report, r).exc = "none"
           /\ SchedTime(normalize(report, r).appt_datetime) < now) =>
             (last'.status = "400 past" /\ jobs' = jobs)]_vars

\* The one-shot jobs and their removal: schedule requests, deletions, job
\* runs.
NextJobs ==
    \/ schedule_1hr
    \/ delete_job
    \/ FireJob
    \/ MissJob
    \/ Tick

SpecJobs == Init1h /\ [][NextJobs]_vars

\* C17: the two periodic jobs are in the scheduler in every state, and
\* delete_job with either of their ids is rejected and removes nothing.
C17_CronJobsStay ==
    [][/\ cron = {"cron_24hr_job", "cron_1hr_job"}
       /\ cron' = cron
       /\ (Step("delete_job")
             /\ last'.id.name \in {"cron_24hr_job", "cron_1hr_job"}) =>
                (last'.status = "400 protected" /\ jobs' = jobs)]_vars

\* delete_job was asked to remove the 1-hour cron job while a one-shot job
\* was pending, and refused.
C17_Witness ==
    /\ last.op = "delete_job"
    /\ last.id.name = "cron_1hr_job"
    /\ last.status = "400 protected"
    /\ jobs # {}
    /\ "cron_1hr_job" \in cron

\* C18: delete_job with the id of a pending one-shot job removes that job
\* and leaves the rows' completion flags, the buffered record-source
\* changes and the reminder counts as they are; a job gone from the
\* scheduler never comes back (new jobs get new ids), and a reminder is
\* sent by a job only while it is pending, so the removed job never sends.
C18_DeleteCancels ==
    [][/\ \A j \in jobs :
             (Step("delete_job") /\ last'.id.name = "" /\ last'.id.n = j.id)
                => /\ j \notin jobs'
                   /\ last'.status = "None"
                   /\ report' = report
                   /\ remote' = remote
                   /\ row_updates' = row_updates
                   /\ sms1' = sms1
       /\ \A j \in jobs' : j \in jobs \/ j.id > nextId
       /\ \A j \in jobs : j.id <= nextId
       /\ Step("job") =>
             \E j \in jobs \ jobs' : j.row = last'.row /\ j.run_date = now]_vars

\* A pending one-shot job was removed by delete_job before its run date;
\* no reminder has gone out for its row.
C18_Witness ==
    /\ last.op = "delete_job"
    /\ last.status = "None"
    /\ last.row \in DOMAIN report
    /\ \A j \in jobs : j.id # last.id.n
    /\ sms1[last.row] = 0
    /\ now < SchedTime(normalize(report, last.row).appt_datetime)

\* The requests that write a completion flag: 1-hour sends (which run
\* send_1_hour_check as the jobs do) and confirmations.
NextFlags ==
    \/ send_1hr
    \/ submit_form

\* No reminder sent and nothing confirmed yet, appointments an hour and a
\* half after start-up.
InitFlags ==
    \E rep \in Reports(NRows, [c24 |-> {FALSE}, c1 |-> {FALSE}], {0}, {3},
                       {"none"}) :
       InitWith(rep, 0, FALSE, OneDay, [r \in DOMAIN rep |-> "ok"])

SpecFlags == InitFlags /\ [][NextFlags]_vars

\* C19: no step turns a completion flag of the record source from true to
\* false; 1hr_done turns true only for a row for which an SMS send has
\* returned successfully; 24hr_done turns true only in a confirmation
\* submission for that row in which no compared field differs.
C19_FlagsMonotonic ==
    [][\A r \in DOMAIN report :
          /\ remote[r].c1 => remote'[r].c1
          /\ remote[r].c24 => remote'[r].c24
          /\ (~remote[r].c1 /\ remote'[r].c1) =>
                (sms1'[r] >= 1 /\ Committed(row_updates', r, "1 HR Pre-call"))
          /\ (~remote[r].c24 /\ remote'[r].c24) =>
                /\ Step("submit_form")
                /\ last'.row = r
                /\ last'.form.differs = {}
                /\ last'.form.time = "same"]_vars

\* Both flags of a row were set during the run: the 1-hour one after a
\* delivered reminder, the 24-hour one by a confirmation.
C19_Witness ==
    \E r \in DOMAIN report :
       /\ ~report[r].c1 /\ remote[r].c1
       /\ ~report[r].c24 /\ remote[r].c24
       /\ sms1[r] >= 1

\* ------------------------------------------- executions of the 24-hour pass

NextConc ==
    \/ StartCron24
    \/ send_all_24hr
    \/ Finish24

SpecConc == InitPass /\ [][NextConc]_vars

\* C20: no two executions of send_24_hour_checks are in progress at the
\* same time, whether the cron trigger or POST /24hr started them.
C20_OnePassAtATime == passes.cron + passes.manual <= 1

\* --------------------------------- send_1_hour_check, statement by statement

\* Threads of the scheduler's executor: ThreadPoolExecutor(1) with the
\* textbelt transport, the scheduler's default pool with twilio (ten
\* threads; two are enough for two jobs to run side by side).
PoolSizes == {1, 2}

\* The handlers in mid-execution, and a name for the next one.
Active == threads.active

FreeThread == CHOOSE t \in 1..MaxThreads : \A w \in Active : w.t # t

\* send_1_hour_check up to logger.debug(resp), on thread who for row r: the
\* reminder is sent; a thread that got a receipt goes on to the write-back.
SendText(who, r, tx) ==
    /\ Cardinality(Active) < MaxThreads
    /\ IF tx = "ok"
       THEN /\ sms1' = [sms1 EXCEPT ![r] = @ + 1]
            /\ threads' = [threads EXCEPT !.active =
                 @ \cup {[t |-> FreeThread, who |-> who, row |-> r,
                          pc |-> "sent"]}]
            /\ last' = Result(who, r, "sent", tx, {}, {})
       ELSE /\ last' = Result(who, r, IF tx = "RuntimeError" THEN "None"
                                      ELSE tx, tx, {}, {})
            /\ UNCHANGED <<sms1, threads>>

\* The executor takes a pending one-shot job whose run_date has come when
\* one of its threads is free.
BeginJob ==
    \E j \in jobs, tx \in TxOutcomes :
       /\ j.run_date = now
       /\ Cardinality({w \in Active : w.who = "job"}) < threads.pool
       /\ SendText("job", j.row, tx)
       /\ jobs' = jobs \ {j}
       /\ UNCHANGED <<now, report, passes, remote, row_updates, nextId,
                      cron, sms24, adminSms, admin_num, notes>>

\* POST /1hr/{id} on a thread of the request pool, up to the same point.
BeginSend1hr ==
    \E id \in 0..Len(report), tx \in TxOutcomes :
       LET r == FindRow(report, id)
           td == normalize(report, r)
           quiet(status) ==
               /\ last' = Result("send_1hr", r, status, "", {}, {})
               /\ UNCHANGED <<sms1, threads>>
       IN /\ IF r = 0 THEN quiet("404")
             ELSE IF Send1hrGuardFlag(report, r) THEN quiet("400 checked")
             ELSE IF td.exc = "ValueError" THEN quiet("400 parse")
             ELSE IF td.exc # "none" THEN quiet(td.exc)
             ELSE /\ sms1[r] < MaxSms
                  /\ SendText("send_1hr", r, tx)
          /\ UNCHANGED <<now, report, passes, remote, row_updates, jobs,
                         nextId, cron, sms24, adminSms, admin_num, notes>>

\* report.set_1_hour_checkbox(row, True) of a thread that has sent.
BufferFlag ==
    \E w \in Active :
       /\ w.pc = "sent"
       /\ row_updates' = set_checkbox(row_updates, w.row, "1 HR Pre-call")
       /\ threads' = [threads EXCEPT !.active =
             (@ \ {w}) \cup {[w EXCEPT !.pc = "buffered"]}]
       /\ UNCHANGED <<now, report, passes, remote, jobs, nextId, cron, sms1,
                      sms24, adminSms, admin_num, notes, last>>

\* smartsheet_controller.update_report_rows(report) of a thread that has
\* buffered its cell, and the return of the receipt.
FlushRows ==
    \E w \in Active, wb \in WbOutcomes :
       /\ w.pc = "buffered"
       /\ remote' = IF wb = "ok" THEN update_rows(remote, row_updates)
                    ELSE remote
       /\ threads' = [threads EXCEPT !.active = @ \ {w}]
       /\ last' = Result(w.who, w.row, IF wb = "ok" THEN "receipt" ELSE wb,
                         "ok", {}, {})
       /\ UNCHANGED <<now, report, passes, row_updates, jobs, nextId, cron,
                      sms1, sms24, adminSms, admin_num, notes>>

NextWrite ==
    \/ BeginJob
    \/ BeginSend1hr
    \/ BufferFlag
    \/ FlushRows

\* Two appointments an hour after start-up, none confirmed: both reminders
\* are due as the service starts.
InitWrite ==
    \E rep \in Reports(NScan, [c24 |-> {FALSE}, c1 |-> {FALSE}], {0}, {2},
                       {"none"}),
       pool \in PoolSizes :
       InitService(rep, 0, FALSE, OneDay, [r \in DOMAIN rep |-> "ok"], pool)

SpecWrite == InitWrite /\ [][NextWrite]_vars

\* C21: the write-backs of send_1_hour_check to the sheet's pending-update
\* buffer are serialized: no two executions (two fire jobs, or a fire job
\* and a manual send) are between buffering their cell and the end of
\* their flush at the same time, and a row whose execution returned its
\* receipt has its 1hr_done flag set in the record source.
C21_WriteBacksSerialized ==
    /\ Cardinality({w \in Active : w.pc = "buffered"}) <= 1
    /\ last.status = "receipt" /\ last.op \in {"job", "send_1hr"}
          => remote[last.row].c1

\* C22: when send_1_hour_check has sent its SMS and the commit of the flag
\* to the record source fails (the row's 1hr_done flag, false before, is
\* still false once the operation is over), the operation ends with the
\* record source's error and not with a receipt.
C22_CommitFailureSurfaces ==
    [][\A r \in DOMAIN report :
          (/\ Step("job") \/ Step("send_1hr")
           /\ last'.row = r
           /\ sms1'[r] = sms1[r] + 1
           /\ ~remote[r].c1
           /\ ~remote'[r].c1)
             => /\ last'.status = "ApiError"
                /\ Raises(last'.status)]_vars

\* A manual send delivered its SMS, the record source refused the update
\* and the request ended with that error.
C22_Witness ==
    /\ last.op = "send_1hr"
    /\ last.tx = "ok"
    /\ last.status = "ApiError"
    /\ sms1[last.row] = 1
    /\ ~remote[last.row].c1

\* ------------------------------------------------- local time and fire time

\* A timezone with at most one change of offset in the days modelled:
\* utcoffset StdOff (UTC-5) and DstOff (UTC-4), in half hours; kind
\* "spring" goes from StdOff to DstOff at the instant at, "fall" the other
\* way, "fixed" keeps StdOff.
StdOff == -10
DstOff == -8

Zones == [kind : {"fixed", "spring", "fall"}, at : 0..MaxAt]

\* The wall-clock times of an appointment, around the change of offset.
Walls == (StdOff - 6)..(StdOff + MaxWall)

\* The offset the zone has at an instant (tzinfo.fromutc).
utcoffset(zone, instant) ==
    CASE zone.kind = "spring" ->
             IF instant < zone.at THEN StdOff ELSE DstOff
      [] zone.kind = "fall" ->
             IF instant < zone.at THEN DstOff ELSE StdOff
      [] OTHER -> StdOff

\* An aware datetime is a wall-clock reading with the offset attached to
\* it; the instant it names is the reading minus the offset.
Instant(dt) == dt.wall - dt.off

\* pytz_timezone.localize(naive) with is_dst=False: the offset under which
\* the reading exists in the zone; standard time when the reading exists
\* twice (clocks set back) or not at all (clocks set forward).
localize(zone, wall) ==
    LET valid(off) == utcoffset(zone, wall - off) = off IN
    [wall |-> wall,
     off |-> IF valid(DstOff) /\ ~valid(StdOff) THEN DstOff ELSE StdOff]

\* aware - timedelta: the reading moves, the attached offset stays.
minus(dt, delta) == [dt EXCEPT !.wall = @ - delta]

\* The reading of dt taken again as a local time of the zone.
tz_relocalize(zone, dt) == localize(zone, dt.wall)

\* tzinfo.normalize(dt): the same instant under the offset the zone has at
\* that instant.
tz_normalize(zone, dt) ==
    LET off == utcoffset(zone, Instant(dt)) IN
    [wall |-> Instant(dt) + off, off |-> off]

\* sched_time as get_1_hour_checks and schedule_1_hour_check compute it
\* from the localised appointment time.
sched_time(zone, appt) == tz_normalize(zone, minus(appt, OneHour))

\* One appointment: its reading is localised as get_appt_datetime does, and
\* the fire time of its job is computed.
FireTime ==
    /\ last.op = ""
    /\ LET appt == localize(last.zone, last.wall) IN
          last' = [op |-> "sched_time", zone |-> last.zone,
                   wall |-> last.wall, appt |-> appt,
                   fire |-> sched_time(last.zone, appt)]
    /\ UNCHANGED <<now, report, passes, threads, remote, row_updates, jobs,
                   nextId, cron, sms1, sms24, adminSms, admin_num, notes>>

\* Any zone and any reading; no report is needed.
InitTz ==
    /\ now = 0
    /\ report = <<>>
    /\ remote = <<>>
    /\ row_updates = <<>>
    /\ jobs = {}
    /\ nextId = 0
    /\ cron = {}
    /\ sms1 = <<>>
    /\ sms24 = <<>>
    /\ adminSms = 0
    /\ admin_num = FALSE
    /\ notes = <<>>
    /\ passes = [cron |-> 0, manual |-> 0]
    /\ threads = [pool |-> 1, active |-> {}]
    /\ \E zone \in Zones, wall \in Walls :
          last = [op |-> "", zone |-> zone, wall |-> wall]

SpecTz == InitTz /\ [][FireTime]_vars

\* C23: the fire instant of a 1-hour job is exactly one hour of absolute
\* time before the appointment instant, also when the zone's offset changes
\* between the two.
C23_FireOneHourBefore ==
    last.op = "sched_time"
        => Instant(last.fire) = Instant(last.appt) - OneHour

\* The clocks change between the fire time and the appointment: the two
\* carry different offsets.
C23_Witness ==
    /\ last.op = "sched_time"
    /\ last.zone.kind # "fixed"
    /\ Instant(last.fire) < last.zone.at
    /\ last.zone.at <= Instant(last.appt)
    /\ last.fire.off # last.appt.off

\* ------------------------------------------------------------- postal codes

\* A 'Zip Code' cell holding text: a string over these characters.
ZipChars == {"0", "7", "-"}

ZipValues == UNION {[1..n -> ZipChars] : n \in 0..MaxZipLen}

IsDigits(s) == Len(s) > 0 /\ \A k \in 1..Len(s) : s[k] # "-"

RECURSIVE StripZeros(_)
StripZeros(s) ==
    IF Len(s) > 1 /\ Head(s) = "0" THEN StripZeros(Tail(s)) ELSE s

\* str(int(value)): digits with an optional sign parse, leading zeros and
\* the sign of zero are not printed back; anything else is a ValueError.
str_int(value) ==
    IF IsDigits(value)
    THEN [exc |-> "none", v |-> StripZeros(value)]
    ELSE IF Len(value) > 1 /\ Head(value) = "-" /\ IsDigits(Tail(value))
    THEN [exc |-> "none",
          v |-> IF StripZeros(Tail(value)) = <<"0">> THEN <<"0">>
                ELSE <<"-">> \o StripZeros(Tail(value))]
    ELSE [exc |-> "ValueError", v |-> <<>>]

\* ('0' * (5 - len(postal_code))) + postal_code
RECURSIVE ZeroFill(_)
ZeroFill(s) == IF Len(s) < 5 THEN ZeroFill(<<"0">> \o s) ELSE s

\* value.split('-') has two parts, of five and of four characters.
FiveDashFour(value) ==
    /\ Cardinality({k \in 1..Len(value) : value[k] = "-"}) = 1
    /\ Len(value) = 10
    /\ value[6] = "-"

\* AllTrackerSheet.get_postal_code on the text of the cell.
get_postal_code_text(value) ==
    LET n == str_int(value) IN
    IF n.exc = "none" THEN [exc |-> "none", v |-> ZeroFill(n.v)]
    ELSE IF Len(value) # 10 THEN [exc |-> "ValueError", v |-> <<>>]
    ELSE IF ~FiveDashFour(value) THEN [exc |-> "ValueError", v |-> <<>>]
    ELSE [exc |-> "none", v |-> value]

\* One cell is normalised.
PostalCode ==
    /\ last.op = ""
    /\ last' = [op |-> "get_postal_code", value |-> last.value,
                ret |-> get_postal_code_text(last.value)]
    /\ UNCHANGED <<now, report, passes, threads, remote, row_updates, jobs,
                   nextId, cron, sms1, sms24, adminSms, admin_num, notes>>

\* Any text in the cell; no report is needed.
InitZip ==
    /\ now = 0
    /\ report = <<>>
    /\ remote = <<>>
    /\ row_updates = <<>>
    /\ jobs = {}
    /\ nextId = 0
    /\ cron = {}
    /\ sms1 = <<>>
    /\ sms24 = <<>>
    /\ adminSms = 0
    /\ admin_num = FALSE
    /\ notes = <<>>
    /\ passes = [cron |-> 0, manual |-> 0]
    /\ threads = [pool |-> 1, active |-> {}]
    /\ \E value \in ZipValues : last = [op |-> "", value |-> value]

SpecZip == InitZip /\ [][PostalCode]_vars

\* C24: get_postal_code pads a code of one to four digits with zeros to
\* five digits, fails on a code of more than five digits without a hyphen,
\* and returns a code of five digits, a hyphen and four digits unchanged.
C24_PostalCode ==
    last.op = "get_postal_code" =>
        LET value == last.value IN
        /\ (IsDigits(value) /\ Len(value) < 5)
              => /\ last.ret.exc = "none"
                 /\ Len(last.ret.v) = 5
                 /\ \E z \in 1..5 :
                       /\ \A k \in 1..(z - 1) : last.ret.v[k] = "0"
                       /\ SubSeq(last.ret.v, z, 5) = StripZeros(value)
        /\ (IsDigits(value) /\ Len(value) > 5)
              => last.ret.exc = "ValueError"
        /\ (FiveDashFour(value) /\ IsDigits(SubSeq(value, 1, 5))
                                /\ IsDigits(SubSeq(value, 7, 10)))
              => last.ret = [exc |-> "none", v |-> value]

\* ------------------------------------------------ normalisation of one row

\* One row is normalised the way the scheduling operations ask for it.
Normalize ==
    /\ last.op = ""
    /\ \E r \in DOMAIN report :
          last' = [op |-> "get_tech_details", row |-> r,
                   ret |-> normalize(report, r)]
    /\ UNCHANGED <<now, report, passes, threads, remote, row_updates, jobs,
                   nextId, cron, sms1, sms24, adminSms, admin_num, notes>>

\* Rows of every kind, readable or not.
InitNorm ==
    \E rep \in Reports(NScan, AnyFlags, {0}, {3}, Faults) :
       /\ now = 0
       /\ report = rep
       /\ remote = [r \in DOMAIN rep |-> [c24 |-> rep[r].c24,
                                          c1 |-> rep[r].c1]]
       /\ row_updates = [r \in DOMAIN rep |-> <<>>]
       /\ jobs = {}
       /\ nextId = 0
       /\ cron = {}
       /\ sms1 = [r \in DOMAIN rep |-> 0]
       /\ sms24 = [r \in DOMAIN rep |-> 0]
       /\ adminSms = 0
       /\ admin_num = FALSE
       /\ notes = [r \in DOMAIN rep |-> 0]
       /\ passes = [cron |-> 0, manual |-> 0]
       /\ threads = [pool |-> 1, active |-> {}]
       /\ last = Result("", 0, "", "", {}, {})

SpecNorm == InitNorm /\ [][Normalize]_vars

BeginSchedule1hr ==
    \E id \in 0..Len(report) :
       /\ IF \E j \in jobs : j.wm = id
          THEN /\ last' = Result("schedule_1hr", id, "400 scheduled", "",
                                 {}, {})
               /\ UNCHANGED threads
          ELSE /\ Cardinality(Active) < MaxThreads
               /\ threads' = [threads EXCEPT !.active =
                    @ \cup {[t |-> FreeThread, who |-> "schedule_1hr",
                             row |-> id, pc |-> "checked"]}]
               /\ last' = Result("schedule_1hr", id, "checked", "", {}, {})
       /\ UNCHANGED <<now, report, passes, remote, row_updates, jobs,
                      nextId, cron, sms1, sms24, adminSms, admin_num, notes>>

\* The rest of the request: check_in.schedule_1_hour_check and the answer.
EndSchedule1hr ==
    \E w \in Active :
       LET r == FindRow(report, w.row)
           td == normalize(report, r)
           quiet(status) ==
               /\ last' = Result("schedule_1hr", r, status, "", {}, {})
               /\ UNCHANGED <<jobs, nextId>>
       IN /\ w.pc = "checked"
          /\ threads' = [threads EXCEPT !.active = @ \ {w}]
          /\ IF r = 0 THEN quiet("404")
             ELSE IF Schedule1hrGuardFlag(report, r)
             THEN quiet("400 checked")
             ELSE IF td.exc = "ValueError" THEN quiet("400 parse")
             ELSE IF td.exc # "none" THEN quiet(td.exc)
             ELSE IF SchedTime(td.appt_datetime) < now
             THEN quiet("400 past")
             ELSE /\ nextId < MaxJobs
                  /\ jobs' = AddJobs(jobs, nextId,
                        <<[sched_time |-> SchedTime(td.appt_datetime),
                           wm |-> td.wm, row |-> r]>>, remote)
                  /\ nextId' = nextId + 1
                  /\ last' = Result("schedule_1hr", r, "job", "", {}, {r})
          /\ UNCHANGED <<now, report, passes, remote, row_updates, cron,
                         sms1, sms24, adminSms, admin_num, notes>>

NextSched ==
    \/ BeginSchedule1hr
    \/ EndSchedule1hr
    \/ delete_job
    \/ Tick

\* Appointments an hour and a half after start-up, the next cron fire half
\* an hour away: the start-up scan has left them to the cron job.
InitSched ==
    \E rep \in Reports(NScan, AnyFlags, {0}, {3}, {"none", "noTime"}) :
       InitWith(rep, 0, FALSE, 1, [r \in DOMAIN rep |-> "ok"])

SpecSched == InitSched /\ [][NextSched]_vars

\* C26: requests to schedule_1hr for one work market number, however their
\* handling interleaves, leave at most one pending job for it.
C26_OneJobPerRequestedId ==
    \A id \in DOMAIN report : Cardinality({j \in jobs : j.wm = id}) <= 1

\* C27: a one-shot job's run_date is never earlier than the instant at
\* which it is registered, be it by schedule_1_hour_checks (at start-up or
\* from the cron job) or by schedule_1_hour_check.
C27_FireNotBeforeRegistration ==
    /\ \A j \in jobs : now <= j.run_date
    /\ [][\A j \in jobs' \ jobs : now <= j.run_date]_vars

\* C28: submit_form answers "24 hour pre-call complete for {id}" only when
\* the row's 24hr_done flag is true in the record source after the call; a
\* submission with a discrepancy, which leaves the flag false, does not get
\* that answer.
C28_CompleteMeansFlagSet ==
    (last.op = "submit_form" /\ last.status = "complete")
        => remote[last.row].c24

====
